---- MODULE Spec2Model ----
(***************************************************************************)
(* mqttshutdownd: the dispatcher goroutine of main (src/main.go:160-229),  *)
(* the shutdown timer it arms with time.AfterFunc and cancels with         *)
(* t.Stop, the message validator (src/power_alarm.go) and the strict       *)
(* logger (src/unnamed/part_000).                                          *)
(***************************************************************************)
EXTENDS Integers, Sequences, FiniteSets, TLC

\* ------------------------------------------------------------------ bounds
\* validated events one run lets into the critical section
MaxEvents == 3
\* powerType values on the wire are 0..MaxPowerType
MaxPowerType == 7

\* ------------------------------------------------------- program constants
PowerTypeUtility == 1
PowerTypeOther == 6
\* the nil *time.Timer
NULL == 0

\* the -topic flag and a topic that is not it
Topic == "power/alarms"
Topics == {Topic, "other/topic"}
Scopes == {"global", "attic"}
PowerTypes == 0..MaxPowerType

\* ------------------------------------------------------------ CEL programs
\* texts the -down-expr and -recovered-expr flags are given in the model
ExprTexts ==
    { "!online && powerType == 1",
      "online && powerType == 1",
      "!online",
      "online",
      "1 / (powerType - 1) == 0",
      "powerType",
      "online &&" }

\* celEnv.Compile and the OutputType check: the text's static type, or
\* "error" when it does not parse
OutputType(e) ==
    CASE e = "online &&" -> "error"
      [] e = "powerType" -> "int"
      [] OTHER -> "bool"

\* the startup checks on one flag: compiles and returns a boolean
CompileOkNoTypeCheck(e) == OutputType(e) # "error"
CompileOk(e) == OutputType(e) # "error" /\ OutputType(e) = "bool"

\* prg.Eval on the bound variables: "true", "false", or "error"
BoolStr(b) == IF b THEN "true" ELSE "false"
Eval(e, msg) ==
    CASE e = "!online && powerType == 1" ->
            BoolStr(~msg.Online /\ msg.PowerType = 1)
      [] e = "online && powerType == 1" ->
            BoolStr(msg.Online /\ msg.PowerType = 1)
      [] e = "!online" -> BoolStr(~msg.Online)
      [] e = "online" -> BoolStr(msg.Online)
      [] e = "1 / (powerType - 1) == 0" ->
            IF msg.PowerType - 1 = 0 THEN "error"
            ELSE BoolStr(1 \div (msg.PowerType - 1) = 0)
      [] OTHER -> "error"

\* ---------------------------------------------------------------- messages
\* a payload either is not JSON for the struct (ok = FALSE) or carries the
\* three keys up, type, scope
BadPayload == [ok |-> FALSE, up |-> FALSE, type |-> 0, scope |-> ""]
Payloads ==
    {BadPayload} \cup [ok : {TRUE}, up : BOOLEAN, type : PowerTypes, scope : Scopes]
Packets == [topic : Topics, payload : Payloads]

ZeroMessage == [Online |-> FALSE, PowerType |-> 0, Scope |-> ""]

\* json.Unmarshal into PowerAlarmMessage: key up -> Online, type -> PowerType,
\* scope -> Scope
Unmarshal(p) ==
    IF p.ok
    THEN [err |-> FALSE,
          m |-> [Online |-> p.up, PowerType |-> p.type, Scope |-> p.scope]]
    ELSE [err |-> TRUE, m |-> ZeroMessage]

\* the earlier revision of Valid: powerType up to PowerTypeUnknown and scope
\* in the scope enumeration
PowerTypeUnknown == 5
ScopeEnum == {"global", "local", "1p", "1c"}
ValidOldRevision(p) ==
    IF p.PowerType < PowerTypeUtility \/ p.PowerType > PowerTypeUnknown
    THEN FALSE
    ELSE IF p.Scope \notin ScopeEnum
    THEN FALSE
    ELSE TRUE

\* PowerAlarmMessage.Valid
ValidAlways(p) == TRUE
Valid(p) ==
    IF p.PowerType < PowerTypeUtility \/ p.PowerType > PowerTypeOther
    THEN FALSE
    ELSE TRUE

\* which per-message check of the dispatcher rejects the packet, "" if none
Anomaly(rm) ==
    IF rm.topic # Topic THEN "topic"
    ELSE IF Unmarshal(rm.payload).err THEN "unmarshal"
    ELSE IF ~Valid(Unmarshal(rm.payload).m) THEN "schema"
    ELSE ""

\* StrictLogger(strict): what the returned logger does to the process
StrictLoggerNeverFatal(s) == "println"
StrictLogger(s) == IF s THEN "fatal" ELSE "println"

\* ------------------------------------------------------------------- state
VARIABLES
    strict,         \* -strict
    downExpr,       \* -down-expr
    recoveredExpr,  \* -recovered-expr
    phase,          \* "startup", "running", "exited"
    pc,             \* dispatcher: "select", "locked", "decided"
    m,              \* the PowerAlarmMessage being processed
    t,              \* the *time.Timer variable: NULL or a timer's index
    timers,         \* every timer AfterFunc created, by index
    verdict,        \* triggerShutdown / triggerRecovery of the message
    evaluated,      \* programs evaluated for the last received packet
    logged,         \* what strictLog reported for the last received packet
    hist,           \* processed events and timer expiries, in order
    recv,           \* validated events in the order they were received
    sinceRun        \* what was processed since shutdown last ran:
                    \* "none", then "disarm", then "arm"

vars == <<strict, downExpr, recoveredExpr, phase, pc, m, t, timers, verdict,
          evaluated, logged, hist, recv, sinceRun>>

config == <<strict, downExpr, recoveredExpr>>

\* a runtime timer: expired = the runtime started f in its goroutine;
\* stop = what t.Stop() returned, "none" while it was never called;
\* run = outcome of exec.Command("shutdown").Run(), "no" while not called
NewTimer == [expired |-> FALSE, stop |-> "none", run |-> "no"]

Active(i) == ~timers[i].expired /\ timers[i].stop # "true"
Outstanding == {i \in 1..Len(timers) : Active(i)}
Invoked == {i \in 1..Len(timers) : timers[i].run # "no"}

EventEntry(msg) == [kind |-> "event", online |-> msg.Online]
FireEntry == [kind |-> "fire", online |-> FALSE]
Events == SelectSeq(hist, LAMBDA h : h.kind = "event")

Init ==
    /\ strict \in BOOLEAN
    /\ downExpr \in ExprTexts
    /\ recoveredExpr \in ExprTexts
    /\ phase = "startup"
    /\ pc = "select"
    /\ m = ZeroMessage
    /\ t = NULL
    /\ timers = <<>>
    /\ verdict = FALSE
    /\ evaluated = {}
    /\ logged = ""
    /\ hist = <<>>
    /\ recv = <<>>
    /\ sinceRun = "none"

\* main, up to starting the dispatcher: both flags are compiled and
\* type-checked, log.Fatalf on either failing
Compile ==
    /\ phase = "startup"
    /\ phase' = IF CompileOk(downExpr) /\ CompileOk(recoveredExpr)
                THEN "running" ELSE "exited"
    /\ UNCHANGED <<config, pc, m, t, timers, verdict, evaluated, logged, hist, recv, sinceRun>>

\* a receive that does not wait for the previous message to be finished
ReceiveAnytime(rm) ==
    /\ phase = "running"
    /\ Len(recv) < MaxEvents
    /\ evaluated' = {}
    /\ logged' = Anomaly(rm)
    /\ IF Anomaly(rm) # ""
       THEN /\ phase' = IF StrictLogger(strict) = "fatal" THEN "exited" ELSE phase
            /\ UNCHANGED <<pc, m, recv>>
       ELSE /\ pc' = "locked"
            /\ m' = Unmarshal(rm.payload).m
            /\ recv' = Append(recv, Unmarshal(rm.payload).m.Online)
            /\ UNCHANGED phase
    /\ UNCHANGED <<config, t, timers, verdict, hist, sinceRun>>

\* case rm := <-receivedMessages, the three checks, tMu.Lock()
Receive(rm) ==
    /\ phase = "running"
    /\ pc = "select"
    /\ Len(Events) < MaxEvents
    /\ evaluated' = {}
    /\ logged' = Anomaly(rm)
    /\ IF Anomaly(rm) # ""
       THEN /\ phase' = IF StrictLogger(strict) = "fatal" THEN "exited" ELSE phase
            /\ UNCHANGED <<pc, m, recv>>
       ELSE /\ pc' = "locked"
            /\ m' = Unmarshal(rm.payload).m
            /\ recv' = Append(recv, Unmarshal(rm.payload).m.Online)
            /\ UNCHANGED phase
    /\ UNCHANGED <<config, t, timers, verdict, hist, sinceRun>>

\* if t == nil: which program the critical section evaluates
SelectExprAlwaysDown(tt) == "down"
SelectExpr(tt) == IF tt = NULL THEN "down" ELSE "recovered"

Program(which) == IF which = "down" THEN downExpr ELSE recoveredExpr

\* the evaluation with its error handed to strictLog and the event dropped
EvaluateErrToStrictLog ==
    /\ phase = "running"
    /\ pc = "locked"
    /\ evaluated' = evaluated \cup {SelectExpr(t)}
    /\ LET out == Eval(Program(SelectExpr(t)), m) IN
       IF out = "error"
       THEN /\ phase' = IF StrictLogger(strict) = "fatal" THEN "exited" ELSE phase
            /\ pc' = IF StrictLogger(strict) = "fatal" THEN pc ELSE "select"
            /\ UNCHANGED verdict
       ELSE /\ verdict' = (out = "true")
            /\ pc' = "decided"
            /\ UNCHANGED phase
    /\ UNCHANGED <<config, m, t, timers, logged, hist, recv, sinceRun>>

\* downExprPrg.Eval / recoveredExprPrg.Eval, log.Fatalf on err
Evaluate ==
    /\ phase = "running"
    /\ pc = "locked"
    /\ evaluated' = evaluated \cup {SelectExpr(t)}
    /\ LET out == Eval(Program(SelectExpr(t)), m) IN
       IF out = "error"
       THEN /\ phase' = "exited"
            /\ UNCHANGED <<pc, verdict>>
       ELSE /\ verdict' = (out = "true")
            /\ pc' = "decided"
            /\ UNCHANGED phase
    /\ UNCHANGED <<config, m, t, timers, logged, hist, recv, sinceRun>>

\* t.Stop() on timer i: stops it if it is still active and reports so
StopIgnored(ts, i) == ts
StopAlways(ts, i) == [ts EXCEPT ![i].stop = "true"]
Stop(ts, i) ==
    [ts EXCEPT ![i].stop = IF ~ts[i].expired /\ ts[i].stop # "true"
                           THEN "true" ELSE "false"]

\* the branch of if t == nil the critical section is in
Branch == IF "down" \in evaluated THEN "down" ELSE "recovered"

\* what the chosen branch does to t and to the timers, given the program's
\* result v: t = time.AfterFunc(...) / t.Stop(); t = nil / nothing
Transition(tt, ts, which, v) ==
    IF which = "down"
    THEN IF v
         THEN [t |-> Len(ts) + 1, timers |-> Append(ts, NewTimer)]
         ELSE [t |-> tt, timers |-> ts]
    ELSE IF v
         THEN [t |-> NULL, timers |-> Stop(ts, tt)]
         ELSE [t |-> tt, timers |-> ts]

\* a recovery, then an arm, processed since shutdown last ran
Progress(p, which, v) ==
    IF ~v THEN p
    ELSE IF which = "recovered" /\ p = "none" THEN "disarm"
    ELSE IF which = "down" /\ p = "disarm" THEN "arm"
    ELSE p

\* one pass of a validated message e through the critical section, from t
\* and the timers as they are: the evaluation, then the transition
OnEvent(tt, ts, e) ==
    LET which == SelectExpr(tt)
        out == Eval(Program(which), e)
    IN  IF out = "error"
        THEN [t |-> tt, timers |-> ts, exited |-> TRUE]
        ELSE [t |-> Transition(tt, ts, which, out = "true").t,
              timers |-> Transition(tt, ts, which, out = "true").timers,
              exited |-> FALSE]

\* the critical section with the new timer assigned to a shadowing t
MutateShadowsT ==
    /\ phase = "running"
    /\ pc = "decided"
    /\ IF "down" \in evaluated
       THEN IF verdict
            THEN /\ timers' = Append(timers, NewTimer)
                 /\ UNCHANGED t
            ELSE UNCHANGED <<t, timers>>
       ELSE IF verdict
            THEN /\ timers' = Stop(timers, t)
                 /\ t' = NULL
            ELSE UNCHANGED <<t, timers>>
    /\ sinceRun' = Progress(sinceRun, Branch, verdict)
    /\ pc' = "select"
    /\ hist' = Append(hist, EventEntry(m))
    /\ m' = ZeroMessage
    /\ verdict' = FALSE
    /\ UNCHANGED <<config, phase, evaluated, logged, recv>>

\* the rest of the critical section: t = time.AfterFunc(...) when arming,
\* t.Stop(); t = nil when recovering; tMu.Unlock(). The iteration's locals
\* (m, triggerShutdown / triggerRecovery) go out of scope with it
Mutate ==
    /\ phase = "running"
    /\ pc = "decided"
    /\ t' = Transition(t, timers, Branch, verdict).t
    /\ timers' = Transition(t, timers, Branch, verdict).timers
    /\ sinceRun' = Progress(sinceRun, Branch, verdict)
    /\ pc' = "select"
    /\ hist' = Append(hist, EventEntry(m))
    /\ m' = ZeroMessage
    /\ verdict' = FALSE
    /\ UNCHANGED <<config, phase, evaluated, logged, recv>>

\* the recovery period of timer i elapses: the runtime starts the AfterFunc
\* callback in its own goroutine
TimerFireClearsPending(i) ==
    /\ phase = "running"
    /\ i \in 1..Len(timers)
    /\ Active(i)
    /\ timers' = [timers EXCEPT ![i].expired = TRUE]
    /\ hist' = Append(hist, FireEntry)
    /\ t' = NULL
    /\ UNCHANGED <<config, phase, pc, m, verdict, evaluated, logged, recv, sinceRun>>
TimerFireStopped(i) ==
    /\ phase = "running"
    /\ i \in 1..Len(timers)
    /\ ~timers[i].expired
    /\ timers' = [timers EXCEPT ![i].expired = TRUE]
    /\ hist' = Append(hist, FireEntry)
    /\ UNCHANGED <<config, phase, pc, m, t, verdict, evaluated, logged, recv, sinceRun>>
TimerFire(i) ==
    /\ phase = "running"
    /\ i \in 1..Len(timers)
    /\ Active(i)
    /\ timers' = [timers EXCEPT ![i].expired = TRUE]
    /\ hist' = Append(hist, FireEntry)
    /\ UNCHANGED <<config, phase, pc, m, t, verdict, evaluated, logged, recv, sinceRun>>

\* the callback with the error of Run() logged and not fatal
ShutdownRunErrorNotFatal(i, ok) ==
    /\ phase = "running"
    /\ i \in 1..Len(timers)
    /\ timers[i].expired
    /\ timers[i].run = "no"
    /\ timers' = [timers EXCEPT ![i].run = IF ok THEN "ok" ELSE "err"]
    /\ sinceRun' = "none"
    /\ UNCHANGED <<config, phase, pc, m, t, verdict, evaluated, logged, hist, recv>>

\* the callback of timer i: exec.Command("shutdown", "-h", "now").Run(),
\* log.Fatalf when it fails
ShutdownRun(i, ok) ==
    /\ phase = "running"
    /\ i \in 1..Len(timers)
    /\ timers[i].expired
    /\ timers[i].run = "no"
    /\ timers' = [timers EXCEPT ![i].run = IF ok THEN "ok" ELSE "err"]
    /\ phase' = IF ok THEN phase ELSE "exited"
    /\ sinceRun' = "none"
    /\ UNCHANGED <<config, pc, m, t, verdict, evaluated, logged, hist, recv>>

\* SIGINT/SIGTERM: ctx is done, the dispatcher returns and main exits
CtxDone ==
    /\ phase = "running"
    /\ phase' = "exited"
    /\ UNCHANGED <<config, pc, m, t, timers, verdict, evaluated, logged, hist, recv, sinceRun>>

Next ==
    \/ Compile
    \/ \E rm \in Packets : Receive(rm)
    \/ Evaluate
    \/ Mutate
    \/ \E i \in 1..Len(timers) : TimerFire(i)
    \/ \E i \in 1..Len(timers), ok \in BOOLEAN : ShutdownRun(i, ok)
    \/ CtxDone

Spec == Init /\ [][Next]_vars

\* the runtime's timer goroutine and the callback it starts do run
LiveSpec ==
    /\ Spec
    /\ WF_vars(\E i \in 1..Len(timers) : TimerFire(i))
    /\ WF_vars(\E i \in 1..Len(timers) : ShutdownRun(i, TRUE) \/ ShutdownRun(i, FALSE))

TypeOK ==
    /\ strict \in BOOLEAN
    /\ phase \in {"startup", "running", "exited"}
    /\ pc \in {"select", "locked", "decided"}
    /\ t \in 0..Len(timers)
    /\ Len(timers) <= MaxEvents
\* ------------------------------------------------------------------ claims
\* the engine's two states, as the code holds them: Idle is t == nil
Idle == t = NULL
Armed == t # NULL

\* a step that finishes the critical section for the event m
EventDone == pc = "decided" /\ pc' = "select"

\* C1: at most one timer is outstanding (scheduled, not fired, not canceled)
\* in every reachable state.
C1_AtMostOneOutstanding == Cardinality(Outstanding) <= 1

C1_Witness ==
    /\ Len(timers) >= 2
    /\ Cardinality(Outstanding) = 1
    /\ timers[1].expired

\* C2 as stated: t is present iff some timer has neither fired nor been
\* canceled, so t is absent once the timer has fired.
C2_PresentIffOutstanding == (t # NULL) <=> (Outstanding # {})

\* C2 amended: t is present iff the last timer scheduled has not had Stop
\* called on it by a recovery; an outstanding timer is always the one t
\* holds, and a fire leaves t as it is.
C2_PresentUntilDisarmed ==
    /\ (t # NULL) <=> (Len(timers) > 0 /\ timers[Len(timers)].stop = "none")
    /\ t # NULL => t = Len(timers)
    /\ Outstanding \subseteq {t}

C2_Witness ==
    /\ t # NULL
    /\ timers[t].expired
    /\ timers[t].run = "ok"
    /\ pc = "select"

C4_ArmFromIdle ==
    [][ (EventDone /\ Idle) =>
          IF Eval(downExpr, m) = "true"
          THEN /\ timers' = Append(timers, NewTimer)
               /\ t' = Len(timers) + 1
               /\ t' # NULL
               /\ ~timers'[t'].expired /\ timers'[t'].stop = "none"
          ELSE /\ timers' = timers
               /\ t' = NULL ]_vars

C4_Witness ==
    /\ Armed
    /\ Len(timers) = 1
    /\ Len(hist) = 1
    /\ Outstanding = {t}

\* C5: an event finishing in Armed stops the timer in t and clears t when
\* -recovered-expr is true of it, and leaves both alone when it is false; a
\* timer that Stop stopped never expires and never runs shutdown.
C5_DisarmFromArmed ==
    /\ [][ (EventDone /\ Armed) =>
             IF Eval(recoveredExpr, m) = "true"
             THEN /\ t' = NULL
                  /\ Len(timers') = Len(timers)
                  /\ timers'[t].stop # "none"
                  /\ Active(t) => timers'[t].stop = "true"
                  /\ \A i \in 1..Len(timers) : i # t => timers'[i] = timers[i]
             ELSE /\ t' = t
                  /\ timers' = timers ]_vars
    /\ [][ \A i \in 1..Len(timers) :
             timers[i].stop = "true" => timers'[i] = timers[i] ]_vars
    /\ [](\A i \in 1..Len(timers) :
             timers[i].stop = "true" => ~timers[i].expired /\ timers[i].run = "no")

C5_Witness ==
    /\ Idle
    /\ Len(timers) = 1
    /\ timers[1].stop = "true"
    /\ ~timers[1].expired
    /\ Len(hist) = 2
\* the configuration of the round-trip and fire-without-disarm scenarios
OnlineConfig == downExpr = "!online" /\ recoveredExpr = "online"
Down == [kind |-> "event", online |-> FALSE]
Up == [kind |-> "event", online |-> TRUE]
\* no processed event so far satisfied -recovered-expr = "online"
NoUpEvent == \A k \in 1..Len(hist) : hist[k] # Up

\* C6: with "!online" / "online", the events {online:false}, {online:true}
\* processed from Idle with no expiry in between leave the engine Idle with
\* t absent, the one timer created and stopped, and shutdown never run.
C6_RoundTrip ==
    (OnlineConfig /\ Len(hist) >= 2 /\ hist[1] = Down /\ hist[2] = Up) =>
        /\ timers[1].stop = "true"
        /\ ~timers[1].expired
        /\ timers[1].run = "no"
        /\ Len(Events) = 2 =>
              /\ Idle
              /\ Len(timers) = 1
              /\ Invoked = {}
              /\ hist = <<Down, Up>>

C6_Witness ==
    /\ OnlineConfig
    /\ hist = <<Down, Up>>
    /\ pc = "select"
    /\ phase = "running"

\* C7: with "!online" / "online", in a run whose processed events are all
\* {online:false}, shutdown is run at most once and only one timer is ever
\* scheduled, however often the event is redelivered; and once such an
\* event is processed shutdown is eventually run, unless the process exits
\* or an {online:true} event is processed first.
C7_FireOnce ==
    /\ [](OnlineConfig /\ NoUpEvent =>
            Cardinality(Invoked) <= 1 /\ Len(timers) <= 1)
    /\ (OnlineConfig /\ NoUpEvent /\ Len(Events) >= 1)
          ~> (Cardinality(Invoked) = 1 \/ ~NoUpEvent \/ phase = "exited")

C7_Witness ==
    /\ OnlineConfig
    /\ hist = <<Down, Down, FireEntry, Down>>
    /\ Cardinality(Invoked) = 1
    /\ Len(timers) = 1
    /\ phase = "running"

Rejected(rm) ==
    \/ rm.topic # Topic
    \/ ~rm.payload.ok
    \/ rm.payload.type \notin PowerTypeUtility..PowerTypeOther

\* C10: without -strict, receiving a packet on another topic, with a payload
\* that does not unmarshal, or with powerType out of range is logged and
\* changes nothing else: no program is evaluated, no timer is created or
\* stopped, t is as it was, and the dispatcher is back at its select.
RejectedPackets == {rm \in Packets : Rejected(rm)}
C10_DropLeavesState ==
    [][ \A rm \in RejectedPackets :
          (~strict /\ pc = "select" /\ Receive(rm)) =>
              /\ logged' # ""
              /\ evaluated' = {}
              /\ timers' = timers
              /\ t' = t
              /\ m' = ZeroMessage
              /\ hist' = hist
              /\ pc' = "select"
              /\ phase' = "running" ]_vars

C10_Witness ==
    /\ ~strict
    /\ logged = "schema"
    /\ Armed
    /\ Outstanding = {t}
    /\ pc = "select"
    /\ phase = "running"
\* a step that leaves the engine and its history as they are
EngineUnchanged == t' = t /\ timers' = timers /\ hist' = hist

\* C11: with -strict, receiving a packet on another topic, with a payload
\* that does not unmarshal, or with powerType out of range ends the
\* process; once the process has ended no event is processed and no timer
\* is armed, stopped or fired.
C11_StrictRejectIsFatal ==
    /\ [][ \A rm \in RejectedPackets :
             (strict /\ pc = "select" /\ Receive(rm)) =>
                 /\ phase' = "exited"
                 /\ logged' # ""
                 /\ evaluated' = {}
                 /\ EngineUnchanged ]_vars
    /\ [][ phase = "exited" => UNCHANGED vars ]_vars
    /\ [](strict /\ logged # "" => phase = "exited" /\ pc = "select")

C11_Witness ==
    /\ strict
    /\ phase = "exited"
    /\ logged = "unmarshal"
    /\ Armed
    /\ Outstanding = {t}
    /\ Len(hist) = 1

\* the evaluation of the selected program failed on m
EvalFailed == pc = "locked" /\ evaluated # {}

\* C12 as stated: without -strict a failed evaluation leaves the process
\* running.
C12_EvalFailureSurvivesNonStrict == (~strict /\ EvalFailed) => phase = "running"

\* C12 amended: a failed evaluation ends the process whatever -strict is,
\* with t, the timers and the history as they were.
C12_EvalFailureAlwaysFatal ==
    /\ [][ (pc = "locked" /\ evaluated' # evaluated
              /\ Eval(Program(IF Idle THEN "down" ELSE "recovered"), m) = "error") =>
                 /\ phase' = "exited"
                 /\ pc' = "locked"
                 /\ EngineUnchanged ]_vars
    /\ [](EvalFailed => phase = "exited")

C12_Witness ==
    /\ ~strict
    /\ EvalFailed
    /\ phase = "exited"
    /\ Armed
    /\ evaluated = {"recovered"}

\* packets on the subscribed topic whose payload unmarshals
WellFormedPackets == {rm \in Packets : rm.topic = Topic /\ rm.payload.ok}

\* C13: a message passes validation iff its powerType is in 1..6, whatever
\* its online and scope are; one outside 1..6 is reported as a schema error.
C13_ValidByPowerTypeOnly ==
    [][ \A rm \in WellFormedPackets :
          (pc = "select" /\ Receive(rm)) =>
              IF rm.payload.type \in 1..6
              THEN pc' = "locked" /\ logged' = ""
                   /\ m'.PowerType = rm.payload.type
                   /\ m'.Online = rm.payload.up
                   /\ m'.Scope = rm.payload.scope
              ELSE pc' = "select" /\ logged' = "schema" ]_vars

C13_Witness ==
    /\ pc = "locked"
    /\ m.PowerType = 6
    /\ m.Scope = "attic"
    /\ m.Online
\* C14: messages are processed one at a time in the order received: the
\* processed events are a prefix of the received ones, at most one received
\* message is not yet processed, it is the one in m, and none is in flight
\* while the dispatcher waits at its select.
C14_SerialInOrder ==
    /\ Len(recv) \in {Len(Events), Len(Events) + 1}
    /\ \A k \in 1..Len(Events) : k <= Len(recv) /\ Events[k].online = recv[k]
    /\ pc # "select" => (Len(recv) = Len(Events) + 1 /\ recv[Len(recv)] = m.Online)
    /\ pc = "select" => Len(recv) = Len(Events)

C14_Witness ==
    /\ pc = "decided"
    /\ recv = <<FALSE, TRUE, FALSE>>
    /\ Len(Events) = 2
    /\ Armed

\* the validated messages
ValidMessages ==
    [Online : BOOLEAN, PowerType : PowerTypeUtility..PowerTypeOther, Scope : Scopes]

\* e processed once, twice in a row, and twice with the pending timer
\* expiring in between
Once(e) == OnEvent(t, timers, e)
Twice(e) ==
    IF Once(e).exited THEN Once(e)
    ELSE OnEvent(Once(e).t, Once(e).timers, e)
TwiceAroundFire(e) ==
    LET a == Once(e)
        fired == IF a.t # NULL /\ ~a.timers[a.t].expired /\ a.timers[a.t].stop # "true"
                 THEN [a.timers EXCEPT ![a.t].expired = TRUE]
                 ELSE a.timers
    IN  IF a.exited THEN a ELSE OnEvent(a.t, fired, e)

\* pending, and the numbers of timers scheduled and of timers canceled
Engine(r) ==
    <<r.t, Len(r.timers),
      Cardinality({i \in 1..Len(r.timers) : r.timers[i].stop # "none"})>>

AtSelect == phase = "running" /\ pc = "select"

Disjoint(e) ==
    /\ Eval(downExpr, e) # "error"
    /\ Eval(recoveredExpr, e) # "error"
    /\ ~(Eval(downExpr, e) = "true" /\ Eval(recoveredExpr, e) = "true")

Failed == {i \in 1..Len(timers) : timers[i].run = "err"}

\* C16: when the shutdown command fails the process ends: the command is
\* not run again for that timer or any other, and no event is processed and
\* no timer is armed afterwards.
C16_ActionFailureIsFatal ==
    /\ [](Failed # {} => phase = "exited" /\ Cardinality(Failed) = 1)
    /\ [][ Failed # {} => UNCHANGED vars ]_vars
    /\ [][ \A i \in 1..Len(timers) :
             (timers[i].run = "no" /\ timers'[i].run = "err") =>
                 /\ phase' = "exited"
                 /\ t' = t /\ hist' = hist /\ Len(timers') = Len(timers) ]_vars

C16_Witness ==
    /\ Failed = {1}
    /\ phase = "exited"
    /\ Len(timers) = 1
    /\ pc = "locked"

\* the startup checks reject the flag's text: it does not parse, or its
\* static type is not boolean
Rejects(e) == OutputType(e) \in {"error", "int"}

\* C17: both expressions are compiled and type-checked before the
\* dispatcher starts; when either is rejected the process never runs, no
\* event is received or processed and no timer is scheduled.
C17_StartupRejection ==
    /\ (Rejects(downExpr) \/ Rejects(recoveredExpr)) =>
          /\ phase \in {"startup", "exited"}
          /\ pc = "select"
          /\ recv = <<>> /\ hist = <<>> /\ timers = <<>> /\ t = NULL
          /\ evaluated = {} /\ logged = ""
    /\ phase = "startup" =>
          (recv = <<>> /\ hist = <<>> /\ timers = <<>> /\ pc = "select")

C17_Witness ==
    /\ phase = "exited"
    /\ downExpr = "powerType"
    /\ ~Rejects(recoveredExpr)

\* the callback of some timer has been started and has not yet got
\* shutdown's result
FireExecuting == \E i \in 1..Len(timers) : timers[i].expired /\ timers[i].run = "no"
InCriticalSection == pc \in {"locked", "decided"}

\* C18: the timer's fire never executes while the dispatcher is inside its
\* critical section, and the dispatcher is never inside it while the fire
\* executes.
C18_FireExcludesCriticalSection ==
    phase = "running" => ~(InCriticalSection /\ FireExecuting)

\* C19: Stop is only ever applied to the timer of the latest arm, the one
\* the recovery decision was evaluated against; t does not change between
\* the evaluation and the transition; and a timer expiring or its callback
\* running never changes t.
C19_CancelTargetsCurrentCycle ==
    /\ [][ \A i \in 1..Len(timers) :
             timers'[i].stop # timers[i].stop =>
                 /\ i = t /\ i = Len(timers)
                 /\ pc = "decided" /\ evaluated = {"recovered"}
                 /\ t' = NULL ]_vars
    /\ [][ (InCriticalSection /\ pc' # "select") => t' = t ]_vars
    /\ [][ (\E i \in 1..Len(timers) :
               timers'[i].expired # timers[i].expired \/ timers'[i].run # timers[i].run)
           => t' = t ]_vars
    /\ [][ t' # t => (pc = "decided" /\ pc' = "select") ]_vars

C19_Witness ==
    /\ Len(timers) = 2
    /\ timers[1].expired /\ timers[1].stop = "false" /\ timers[1].run = "ok"
    /\ t = 2
    /\ Outstanding = {2}

\* C20: each timer runs shutdown at most once; between two runs of shutdown
\* the dispatcher processed a recovery and then an arm; and a new timer is
\* armed after a fire only once a recovery has been processed.
C20_RearmOnlyAfterDisarm ==
    /\ [][ \A i \in 1..Len(timers) :
             timers[i].run # "no" => timers'[i].run = timers[i].run ]_vars
    /\ [][ (Invoked # {} /\ Invoked' # Invoked) => sinceRun = "arm" ]_vars
    /\ [][ (Len(timers') > Len(timers) /\ Len(timers) > 0) =>
             timers[Len(timers)].stop # "none" ]_vars
====
